---- MODULE Spec2Model ----
(***************************************************************************)
(* Token lifecycle of dimplex_controller.auth.AuthManager.                 *)
(*                                                                         *)
(* One AuthManager (access_token, refresh_token, expires_at) is shared by  *)
(* the asyncio tasks of Tasks.  A coroutine runs without interruption      *)
(* between two awaits, so every action below is the code from one await    *)
(* point to the next.  Leaving `async with session.post(...)` right after  *)
(* the body was read does not suspend (the response is already released),  *)
(* so the commit of a response and the return of the caller are one step.  *)
(***************************************************************************)
EXTENDS Integers, Sequences, FiniteSets, TLC

\* ------------------------------------------------------------------ bounds
\* The clock runs from 0 to MaxTime.
MaxTime == 2

\* ------------------------------------------------------- program constants
HTTP_OK == 200
DefaultExpiresIn == 3600
ExpiryBuffer == 60
MaxRedirects == 10

\* ------------------------------------------------------------- value sets
Tasks == {"t1", "t2"}
SeqTask == "t1"

\* Python's None; a key absent from a dict reads as None through dict.get.
None == "None"

Codes == {"XYZ"}

\* What token_data can hold when the manager is constructed.
InitAccess == {None, "a0"}
InitRefresh == {None, "", "r0"}
InitExpires == {0, 1}

\* expires_in of a token response: absent, a number, or a JSON value that is
\* not a number (a string, null).
NoExpiresIn == [kind |-> "absent", val |-> 0]
BadExpiresIn == [kind |-> "bad", val |-> 0]
ExpiresIns == {NoExpiresIn, BadExpiresIn} \cup [kind : {"int"}, val : {30, 60}]

\* The body of a 200 answer of the token endpoint, as resp.json() reads it.
NoDict == [json |-> "list", access_token |-> None, refresh_token |-> None, expires_in |-> NoExpiresIn]
TokenDicts == [json : {"dict"}, access_token : {None, "a1"}, refresh_token : {None, "r1"}, expires_in : ExpiresIns]

\* What awaiting the token endpoint POST can produce.
NoResp == [kind |-> "none", status |-> 0, body |-> NoDict]
TokenOutcomes ==
    {[kind |-> "transport", status |-> 0, body |-> NoDict]}
    \cup [kind : {"response"}, status : {201, 400}, body : {NoDict}]
    \cup {[kind |-> "badjson", status |-> HTTP_OK, body |-> NoDict]}
    \cup [kind : {"response"}, status : {HTTP_OK}, body : TokenDicts \cup {NoDict}]

\* The login page fetched by headless_login: whether the SETTINGS blob is
\* found and parses, and the csrf and transId it holds.
NoPage == [settings |-> "none", csrf |-> None, transId |-> None]
Pages ==
    [settings : {"missing", "malformed"}, csrf : {None}, transId : {None}]
    \cup [settings : {"ok"}, csrf : {None, "", "c"}, transId : {None, "", "tx"}]
PageOutcomes == {"transport", "html"}

\* The answer to the credential POST: not JSON, JSON that is no object, or an
\* object with its status field.
CredOutcomes == {"transport", "notjson", "notdict", "200", "400", None}

\* How the GET with automatic redirects (auth.py:237) can end.
AutoOutcomes == {"response", "ClientError", "Exception"}

\* The Location header of a redirect hop.
\*   "next"        https://.../next                  (no code)
\*   "code"        https://.../cb?code=XYZ
\*   "app_code"    REDIRECT_URI?code=XYZ
\*   "app_nocode"  REDIRECT_URI?error=access_denied
\*   "frag"        https://.../cb#code=XYZ            (code= outside the query)
Locations == {None, "", "next", "code", "app_code", "app_nocode", "frag"}
StartsWithRedirectUri(l) == l \in {"app_code", "app_nocode"}
ContainsCodeEq(l) == l \in {"code", "app_code", "frag"}
\* auth.py:266-268: parse_qs(urlparse(location).query).get("code", [""])[0]
QueryCode(l) == IF l \in {"code", "app_code"} THEN "XYZ" ELSE ""

HopOutcomes ==
    {[kind |-> "transport", status |-> 0, location |-> None]}
    \cup [kind : {"response"}, status : {200, 307}, location : {None, "code"}]
    \cup [kind : {"response"}, status : {301, 302, 303}, location : Locations]

\* The body of a data API answer.
\*   "empty"    content length 0
\*   "json"     a JSON document served as application/json
\*   "html"     a body of another content type (resp.json() raises
\*              aiohttp.ContentTypeError, a ClientError)
\*   "notjson"  application/json that does not parse (json.JSONDecodeError)
ApiBodies == {"empty", "json", "html", "notjson"}
\* resp.text(): the body as it was sent.
BodyText(b) == IF b = "empty" THEN "" ELSE b
\* resp.content_length
ContentLength(b) == IF b = "empty" THEN 0 ELSE Len(BodyText(b))
\* resp.json() of a body that parses.
ParsedJson(b) == "parsed"

\* What awaiting the data API request can produce: an aiohttp.ClientError, an
\* asyncio.TimeoutError (the total timeout of the session), or a response.
NoApi == [kind |-> "none", status |-> 0, body |-> "empty"]
NoApiError == [status |-> 0, message |-> None]
ApiOutcomes ==
    [kind : {"transport", "timeout"}, status : {0}, body : {"empty"}]
    \cup [kind : {"response"}, status : {HTTP_OK, 201, 401, 500}, body : ApiBodies]

\* The JSON document a 200 answer of GetTimerModeDetailsForAppliance carries:
\* an object whose fields may be missing and which may hold a field the
\* model class does not declare, or an array.
Absent == "absent"
SettingsDoc(shape, hub, app, tm, periods, extra) ==
    [shape |-> shape, HubId |-> hub, ApplianceId |-> app, TimerMode |-> tm,
     TimerPeriods |-> periods, Extra |-> extra]
EmptyDoc == SettingsDoc("dict", Absent, Absent, 0, Absent, Absent)
ListDoc == SettingsDoc("list", Absent, Absent, 0, Absent, Absent)
SettingsDocs ==
    {ListDoc}
    \cup {SettingsDoc("dict", hub, "ap1", tm, periods, extra) :
             hub \in {"h2", Absent}, tm \in {0, 1}, periods \in {"p1", Absent},
             extra \in {"x", Absent}}
\* The modes the caller asks set_mode for.
Modes == {1, 2}

\* models.py:49-53: a TimerModeSettings object.
TimerModeSettings(hub, app, tm, periods) ==
    [HubId |-> hub, ApplianceId |-> app, TimerMode |-> tm, TimerPeriods |-> periods]
NoSettings == TimerModeSettings(None, None, 0, None)
NoSetMode == [mode |-> 0, data |-> EmptyDoc, current |-> NoSettings]

\* client.py:132 and models.py:49-53: TimerModeSettings(**data). An array
\* is no mapping; a required field that is missing is a ValidationError;
\* TimerPeriods defaults to the empty list; an undeclared field is dropped.
ParseSettings(data) ==
    IF data.shape # "dict" THEN [exc |-> "TypeError", val |-> NoSettings]
    ELSE IF data.HubId = Absent \/ data.ApplianceId = Absent
    THEN [exc |-> "ValidationError", val |-> NoSettings]
    ELSE [exc |-> None,
          val |-> TimerModeSettings(data.HubId, data.ApplianceId, data.TimerMode,
                                    IF data.TimerPeriods = Absent THEN "[]" ELSE data.TimerPeriods)]

\* client.py:145: current.TimerMode = mode
WithTimerMode(current, mode) == [current EXCEPT !.TimerMode = mode]

\* What the DimplexAuthError raised on a rejected token request carries: the
\* status and the body text its message was formatted from (NoStatus when the
\* message holds no status).
NoStatus == 0
NoAuthError == [status |-> NoStatus, text |-> None]
\* resp.text() of a rejected token request.
TokenErrorText(o) == IF o.status = 400 THEN "invalid_grant" ELSE "unexpected"

\* JSON values of the token file.
JAbsent == [t |-> "absent", s |-> "", n |-> 0]
JNull == [t |-> "null", s |-> "", n |-> 0]
JString(s) == [t |-> "string", s |-> s, n |-> 0]
JNumber(n) == [t |-> "number", s |-> "", n |-> n]

\* json.dump of an Optional[str] and of a number (auth.py:285-290).
JsonOfToken(v) == IF v = None THEN JNull ELSE JString(v)
JsonOfNumber(n) == JNumber(n)

\* Mutant: an empty string is read back as None.
PyOfToken_EmptyIsNone(j) == IF j.t = "string" /\ j.s # "" THEN j.s ELSE None

\* json.load, then dict.get (auth.py:30-32): null and a missing key read as
\* None, a missing expires_at as 0.
PyOfToken(j) == IF j.t = "string" THEN j.s ELSE None
PyOfNumber(j) == IF j.t = "number" THEN j.n ELSE 0

\* The token file: absent, present but not readable (open raises OSError),
\* text that is no JSON, or a JSON document.  top is the type of the document:
\*   "null", "array" ([1]), "empty_array" ([]), "string" ("abc"),
\*   "number" (5), "zero" (0), "object".
FileOf(kind, top, at, rt, exp) ==
    [kind |-> kind, top |-> top, access_token |-> at, refresh_token |-> rt, expires_at |-> exp]
NoFile == FileOf("absent", "none", JAbsent, JAbsent, JAbsent)
InitFiles ==
    {NoFile,
     FileOf("unreadable", "none", JAbsent, JAbsent, JAbsent),
     FileOf("garbage", "none", JAbsent, JAbsent, JAbsent)}
    \cup {FileOf("json", top, JAbsent, JAbsent, JAbsent) :
             top \in {"null", "array", "empty_array", "string", "number", "zero", "object"}}
    \cup {FileOf("json", "object", JString("a0"), JAbsent, JAbsent)}

\* The Python value load_tokens hands to its caller.
ValueOf(py, truthy, at, rt, exp) ==
    [py |-> py, truthy |-> truthy, access_token |-> at, refresh_token |-> rt, expires_at |-> exp]
NoLoaded == ValueOf("unset", FALSE, None, None, 0)
PyNone == ValueOf("None", FALSE, None, None, 0)

\* What save_tokens last wrote.
NoSave == [done |-> FALSE, triple |-> <<None, None, 0>>]

\* expires_at of the managers whose tokens are saved.
StoreExpires == {0, 1, 0 - 30, 3540}

\* ------------------------------------------------------------------ state
VARIABLES
    now,            \* time.time()
    access_token,   \* AuthManager._access_token
    refresh_token,  \* AuthManager._refresh_token
    expires_at,     \* AuthManager._expires_at
    committed,      \* history: the last whole triple (constructor or one response)
    pc,             \* per task: the await it is suspended at
    op,             \* per task: the public operation it was called for
    reqs,           \* per task: the HTTP requests the operation has issued
    resp,           \* per task: the last token endpoint outcome it received
    hl,             \* per task: the locals of headless_login
    result,         \* per task: how the operation ended
    api,            \* per task: the last data API outcome _request received
    apierr,         \* per task: the DimplexApiError(status, message) it raised
    autherr,        \* per task: what the DimplexAuthError of the token endpoint carries
    sm,             \* per task: the locals of set_mode
    file,           \* the token file at the path given to save_tokens / load_tokens
    saved,          \* history: the triple the file was written from by save_tokens
    loaded,         \* the value the last load_tokens returned to the caller
    logged          \* whether the last load_tokens logged a failure

vars == <<now, access_token, refresh_token, expires_at, committed, pc, op, reqs, resp, hl, result,
          api, apierr, autherr, sm, file, saved, loaded, logged>>
tokenVars == <<access_token, refresh_token, expires_at>>
clientVars == <<api, apierr>>
storeVars == <<file, saved, loaded, logged>>

Triple == <<access_token, refresh_token, expires_at>>

NoResult == [kind |-> "none", val |-> None]
Returned(v) == [kind |-> "return", val |-> v]
Raised(e) == [kind |-> "raise", val |-> e]

NoHop == [kind |-> "none", status |-> 0, location |-> None]
NoLogin == [page |-> NoPage, csrf |-> None, transId |-> None, cred |-> "pending", hops |-> 0,
            last |-> NoHop, code |-> None]

TokenRequest(grant, v) == [ep |-> "token", grant |-> grant, val |-> v]

\* Mutant: the data request carries no token.
ApiRequest_NoToken(token) == [ep |-> "api", grant |-> "Bearer", val |-> None]

\* client.py:61-81: the data API request with its Authorization header.
ApiRequest(token) == [ep |-> "api", grant |-> "Bearer", val |-> token]

\* client.py:125-130: the POST of get_appliance_features for hub "h1" and
\* appliance "ap1".
FetchRequest(token) ==
    [ep |-> "GetTimerModeDetailsForAppliance", grant |-> "Bearer", val |-> token,
     json |-> [HubId |-> "h1", ApplianceId |-> "ap1", TimerMode |-> 0]]

\* client.py:147-149: the POST of set_mode; current.dict() is its payload.
SetRequest(token, current) ==
    [ep |-> "SetTimerMode", grant |-> "Bearer", val |-> token,
     json |-> [TimerModeSettings |-> current]]

\* ---------------------------------------------------------------- helpers
\* Python truthiness of an Optional[str].
Falsy(s) == s \in {None, ""}

\* Mutant: the expiry instant itself still counts as valid.
IsAuthenticatedAt_Inclusive(at, exp, t) == at # None /\ t <= exp

\* auth.py:37
IsAuthenticatedAt(at, exp, t) == at # None /\ t < exp
is_authenticated == IsAuthenticatedAt(access_token, expires_at, now)

\* Mutant: the 60 s buffer is not subtracted.
UpdateTokens_NoBuffer(data, cur, t) ==
    IF data.json # "dict"
    THEN [triple |-> cur, exc |-> "AttributeError"]
    ELSE IF data.expires_in.kind = "bad"
    THEN [triple |-> <<data.access_token, data.refresh_token, cur[3]>>, exc |-> "TypeError"]
    ELSE [triple |-> <<data.access_token, data.refresh_token,
                       t + (IF data.expires_in.kind = "absent" THEN DefaultExpiresIn
                            ELSE data.expires_in.val)>>,
          exc |-> None]

\* Mutant: a response without access_token keeps the stored one.
UpdateTokens_KeepAccess(data, cur, t) ==
    IF data.json # "dict"
    THEN [triple |-> cur, exc |-> "AttributeError"]
    ELSE IF data.expires_in.kind = "bad"
    THEN [triple |-> <<data.access_token, data.refresh_token, cur[3]>>, exc |-> "TypeError"]
    ELSE [triple |-> <<IF data.access_token = None THEN cur[1] ELSE data.access_token,
                       data.refresh_token,
                       t + (IF data.expires_in.kind = "absent" THEN DefaultExpiresIn
                            ELSE data.expires_in.val) - ExpiryBuffer>>,
          exc |-> None]

\* auth.py:71-76: the assignments of _update_tokens in order; a body that is
\* not a dict fails at the first data.get, an expires_in that is not a number
\* fails at line 76, after lines 73 and 74 have assigned.
UpdateTokens(data, cur, t) ==
    IF data.json # "dict"
    THEN [triple |-> cur, exc |-> "AttributeError"]
    ELSE LET at == data.access_token
             rt == data.refresh_token
             ei == IF data.expires_in.kind = "absent"
                   THEN [kind |-> "int", val |-> DefaultExpiresIn]
                   ELSE data.expires_in
         IN IF ei.kind # "int"
            THEN [triple |-> <<at, rt, cur[3]>>, exc |-> "TypeError"]
            ELSE [triple |-> <<at, rt, t + ei.val - ExpiryBuffer>>, exc |-> None]

\* Mutant: every 2xx status passes.
StatusOk_Any2xx(status) == status >= 200 /\ status < 300

\* auth.py:63 and auth.py:115
StatusOk(status) == status = HTTP_OK

\* Mutant: only None counts as a missing refresh token.
MissingRefreshToken_NoneOnly(rt) == rt = None

\* auth.py:41: not self._refresh_token
MissingRefreshToken(rt) == Falsy(rt)

\* ---------------------------------------------------------------- Init
Init ==
    /\ now = 0
    /\ access_token \in InitAccess
    /\ refresh_token \in InitRefresh
    /\ expires_at \in InitExpires
    /\ committed = <<access_token, refresh_token, expires_at>>
    /\ pc = [t \in Tasks |-> "idle"]
    /\ op = [t \in Tasks |-> "none"]
    /\ reqs = [t \in Tasks |-> <<>>]
    /\ resp = [t \in Tasks |-> NoResp]
    /\ hl = [t \in Tasks |-> NoLogin]
    /\ result = [t \in Tasks |-> NoResult]
    /\ api = [t \in Tasks |-> NoApi]
    /\ apierr = [t \in Tasks |-> NoApiError]
    /\ autherr = [t \in Tasks |-> NoAuthError]
    /\ sm = [t \in Tasks |-> NoSetMode]
    /\ file = NoFile
    /\ saved = NoSave
    /\ loaded = NoLoaded
    /\ logged = FALSE

\* An operation that has ended is handed back to its caller at once: nothing
\* else runs in between.
NoneDone == \A u \in Tasks : pc[u] # "done"

\* A task starts an operation: its locals are fresh.
Begin(t, o, p, r, res) ==
    /\ pc[t] = "idle"
    /\ NoneDone
    /\ pc' = [pc EXCEPT ![t] = p]
    /\ op' = [op EXCEPT ![t] = o]
    /\ reqs' = [reqs EXCEPT ![t] = r]
    /\ resp' = [resp EXCEPT ![t] = NoResp]
    /\ hl' = [hl EXCEPT ![t] = NoLogin]
    /\ result' = [result EXCEPT ![t] = res]
    /\ api' = [api EXCEPT ![t] = NoApi]
    /\ apierr' = [apierr EXCEPT ![t] = NoApiError]
    /\ autherr' = [autherr EXCEPT ![t] = NoAuthError]

\* auth.py:34-37
CallIsAuthenticated(t) ==
    /\ Begin(t, "is_authenticated", "done", <<>>, Returned(IF is_authenticated THEN "True" ELSE "False"))
    /\ UNCHANGED <<sm, storeVars, now, tokenVars, committed>>

\* auth.py:39-49, up to the await inside refresh_tokens (auth.py:62)
CallGetAccessToken(t) ==
    /\ IF MissingRefreshToken(refresh_token)
       THEN Begin(t, "get_access_token", "done", <<>>, Raised("DimplexAuthError"))
       ELSE IF is_authenticated
            THEN Begin(t, "get_access_token", "done", <<>>, Returned(access_token))
            ELSE Begin(t, "get_access_token", "rt_post",
                       <<TokenRequest("refresh_token", refresh_token)>>, NoResult)
    /\ UNCHANGED <<sm, storeVars, now, tokenVars, committed>>

\* auth.py:51-62
CallRefreshTokens(t) ==
    /\ Begin(t, "refresh_tokens", "rt_post", <<TokenRequest("refresh_token", refresh_token)>>, NoResult)
    /\ UNCHANGED <<sm, storeVars, now, tokenVars, committed>>

\* auth.py:97-113
CallExchangeCode(t, c) ==
    /\ Begin(t, "exchange_code", "ex_post", <<TokenRequest("authorization_code", c)>>, NoResult)
    /\ UNCHANGED <<sm, storeVars, now, tokenVars, committed>>

\* ------------------------------------------------------- headless_login
GetRequest(url, mode) == [ep |-> url, grant |-> "GET", val |-> mode]
CredentialPost(csrf) == [ep |-> "SelfAsserted", grant |-> "password", val |-> csrf]

\* The task ends its operation with an exception; nothing else changes.
Fail(t, e) ==
    /\ pc' = [pc EXCEPT ![t] = "done"]
    /\ result' = [result EXCEPT ![t] = Raised(e)]

\* auth.py:123-136: the GET of the authorize URL is issued.
CallHeadlessLogin(t) ==
    /\ Begin(t, "headless_login", "hl_fetch", <<GetRequest("authorize", "default")>>, NoResult)
    /\ UNCHANGED <<sm, storeVars, now, tokenVars, committed>>

\* auth.py:136-138: the login page arrives, or the transport fails.
HlLoginPage(t, o, page) ==
    /\ pc[t] = "hl_fetch"
    /\ NoneDone
    /\ IF o = "transport"
       THEN /\ Fail(t, "ClientError")
            /\ UNCHANGED hl
       ELSE /\ pc' = [pc EXCEPT ![t] = "hl_parse"]
            /\ hl' = [hl EXCEPT ![t].page = page]
            /\ UNCHANGED result
    /\ UNCHANGED <<sm, storeVars, autherr, now, clientVars, tokenVars, committed, op, reqs, resp>>

\* Mutant: one of csrf and transId is enough.
SettingsComplete_Either(csrf, transId) == ~Falsy(csrf) \/ ~Falsy(transId)

\* Mutant: transId is not checked.
SettingsComplete_CsrfOnly(csrf, transId) == ~Falsy(csrf)

\* auth.py:150-153: both csrf and transId must be truthy.
SettingsComplete(csrf, transId) == ~Falsy(csrf) /\ ~Falsy(transId)

\* auth.py:140-204: SETTINGS is extracted and parsed, then the credentials
\* are posted to SelfAsserted.
HlParseSettings(t) ==
    /\ pc[t] = "hl_parse"
    /\ NoneDone
    /\ LET page == hl[t].page
       IN IF page.settings # "ok" \/ ~SettingsComplete(page.csrf, page.transId)
          THEN /\ Fail(t, "DimplexAuthError")
               /\ UNCHANGED <<hl, reqs>>
          ELSE /\ pc' = [pc EXCEPT ![t] = "hl_submit"]
               /\ hl' = [hl EXCEPT ![t].csrf = page.csrf, ![t].transId = page.transId]
               /\ reqs' = [reqs EXCEPT ![t] = Append(@, CredentialPost(page.csrf))]
               /\ UNCHANGED result
    /\ UNCHANGED <<sm, storeVars, autherr, now, clientVars, tokenVars, committed, op, resp>>

\* auth.py:215: the status field must be the string "200".
CredentialsAccepted(status) == status = "200"

\* auth.py:204-237: the answer to the credential POST; when it is accepted
\* the authorize URL is requested again with automatic redirects.
HlCredentialResponse(t, o) ==
    /\ pc[t] = "hl_submit"
    /\ NoneDone
    /\ IF o = "transport"
       THEN Fail(t, "ClientError") /\ UNCHANGED <<reqs, hl>>
       ELSE /\ hl' = [hl EXCEPT ![t].cred = o]
            /\ IF o = "notjson"
               THEN Fail(t, "DimplexAuthError") /\ UNCHANGED reqs
               ELSE IF o = "notdict"
               THEN Fail(t, "AttributeError") /\ UNCHANGED reqs
               ELSE IF ~CredentialsAccepted(o)
               THEN Fail(t, "DimplexAuthError") /\ UNCHANGED reqs
               ELSE /\ pc' = [pc EXCEPT ![t] = "hl_auto"]
                    /\ reqs' = [reqs EXCEPT ![t] = Append(@, GetRequest("authorize", "auto"))]
                    /\ UNCHANGED result
    /\ UNCHANGED <<sm, storeVars, autherr, now, clientVars, tokenVars, committed, op, resp>>

\* auth.py:236-256: whatever the automatic-redirect GET did is dropped, and
\* the manual loop sends its first GET.
HlAutoRedirectDone(t, o) ==
    /\ pc[t] = "hl_auto"
    /\ NoneDone
    /\ pc' = [pc EXCEPT ![t] = "hl_hop"]
    /\ o \in AutoOutcomes
    /\ hl' = [hl EXCEPT ![t].hops = 1]
    /\ reqs' = [reqs EXCEPT ![t] = Append(@, GetRequest("authorize", "manual"))]
    /\ UNCHANGED <<sm, storeVars, autherr, now, clientVars, tokenVars, committed, op, resp, result>>

\* Mutant: a 307 answer is followed as well.
IsRedirectStatus_With307(status) == status \in {301, 302, 303, 307}

\* auth.py:257
IsRedirectStatus(status) == status \in {301, 302, 303}

\* Mutant: only a Location holding code= ends the loop.
IsFinalLocation_CodeOnly(l) == ContainsCodeEq(l)

\* auth.py:262
IsFinalLocation(l) == StartsWithRedirectUri(l) \/ ContainsCodeEq(l)

\* Mutant: the loop runs once more.
MoreHops_OneMore(n) == n <= MaxRedirects

\* auth.py:255: range(10) allows another iteration.
MoreHops(n) == n < MaxRedirects

\* auth.py:256-281: one answer inside the manual redirect loop, and what
\* follows the loop when it ends.
HlHopResponse(t, o) ==
    /\ pc[t] = "hl_hop"
    /\ NoneDone
    /\ IF o.kind = "transport"
       THEN /\ Fail(t, "ClientError")
            /\ hl' = [hl EXCEPT ![t].last = o]
            /\ UNCHANGED reqs
       ELSE LET follow == /\ IsRedirectStatus(o.status)
                          /\ ~Falsy(o.location)
                          /\ ~IsFinalLocation(o.location)
                code == IF /\ IsRedirectStatus(o.status)
                           /\ ~Falsy(o.location)
                           /\ IsFinalLocation(o.location)
                        THEN QueryCode(o.location)
                        ELSE None
            IN IF follow /\ MoreHops(hl[t].hops)
               THEN /\ hl' = [hl EXCEPT ![t].hops = @ + 1, ![t].last = o]
                    /\ reqs' = [reqs EXCEPT ![t] = Append(@, GetRequest("location", "manual"))]
                    /\ UNCHANGED <<pc, result>>
               ELSE IF Falsy(code)
               THEN /\ Fail(t, "DimplexAuthError")
                    /\ hl' = [hl EXCEPT ![t].code = code, ![t].last = o]
                    /\ UNCHANGED reqs
               ELSE /\ pc' = [pc EXCEPT ![t] = "ex_post"]
                    /\ hl' = [hl EXCEPT ![t].code = code, ![t].last = o]
                    /\ reqs' = [reqs EXCEPT ![t] = Append(@, TokenRequest("authorization_code", code))]
                    /\ UNCHANGED result
    /\ UNCHANGED <<sm, storeVars, autherr, now, clientVars, tokenVars, committed, op, resp>>

\* The stage of the headless-login state machine a task is in.
Stage(p, o, res) ==
    IF o # "headless_login" THEN "NotLoggingIn"
    ELSE CASE p = "hl_fetch" -> "FetchingLoginPage"
           [] p = "hl_parse" -> "ParsingSettings"
           [] p = "hl_submit" -> "SubmittingCredentials"
           [] p \in {"hl_auto", "hl_hop"} -> "FollowingRedirects"
           [] p = "ex_post" -> "CodeExchanged"
           [] p = "done" /\ res.kind = "raise" -> "Failed"
           [] OTHER -> "LoggedIn"

\* Mutant: get_access_token returns the token it read before the refresh.
ValueAfterCommit_Stale(o, at) == IF o = "get_access_token" THEN access_token ELSE None

\* What the caller gets when refresh_tokens / exchange_code returned normally:
\* get_access_token returns self._access_token (auth.py:49), the others None.
ValueAfterCommit(o, at) == IF o = "get_access_token" THEN at ELSE None

\* auth.py:64-66 (refresh_tokens, awaited at "rt_post") and auth.py:116-118
\* (exchange_code, awaited at "ex_post"): the message of the DimplexAuthError.
AuthErrorOf(p, o) ==
    IF p = "rt_post"
    THEN [status |-> o.status, text |-> TokenErrorText(o)]
    ELSE [status |-> NoStatus, text |-> TokenErrorText(o)]

\* auth.py:62-69 and auth.py:113-121: the answer of the token endpoint.
TokenResponse(t, o) ==
    /\ pc[t] \in {"rt_post", "ex_post"}
    /\ NoneDone
    /\ resp' = [resp EXCEPT ![t] = o]
    /\ autherr' = [autherr EXCEPT ![t] =
           IF o.kind # "transport" /\ ~StatusOk(o.status) THEN AuthErrorOf(pc[t], o) ELSE @]
    /\ IF o.kind = "transport"
       THEN /\ Fail(t, "ClientError")
            /\ UNCHANGED <<tokenVars, committed, reqs>>
       ELSE IF ~StatusOk(o.status)
       THEN /\ Fail(t, "DimplexAuthError")
            /\ UNCHANGED <<tokenVars, committed, reqs>>
       ELSE IF o.kind = "badjson"
       THEN /\ Fail(t, "JSONError")
            /\ UNCHANGED <<tokenVars, committed, reqs>>
       ELSE LET u == UpdateTokens(o.body, Triple, now)
            IN /\ access_token' = u.triple[1]
               /\ refresh_token' = u.triple[2]
               /\ expires_at' = u.triple[3]
               /\ committed' = IF u.exc = None THEN u.triple ELSE committed
               /\ IF u.exc # None
                  THEN Fail(t, u.exc) /\ UNCHANGED reqs
                  ELSE IF op[t] = "_request"
                  THEN \* client.py:60-81: get_access_token returned; the
                       \* data request goes out with that token.
                       /\ pc' = [pc EXCEPT ![t] = "api_req"]
                       /\ reqs' = [reqs EXCEPT ![t] = Append(@, ApiRequest(u.triple[1]))]
                       /\ UNCHANGED result
                  ELSE IF op[t] = "set_mode"
                  THEN \* the _request of get_appliance_features, or the
                       \* one of set_mode itself once the settings are there.
                       /\ pc' = [pc EXCEPT ![t] =
                              IF sm[t].current = NoSettings THEN "sm_fetch" ELSE "sm_set"]
                       /\ reqs' = [reqs EXCEPT ![t] = Append(@,
                              IF sm[t].current = NoSettings
                              THEN FetchRequest(u.triple[1])
                              ELSE SetRequest(u.triple[1], sm[t].current))]
                       /\ UNCHANGED result
                  ELSE /\ pc' = [pc EXCEPT ![t] = "done"]
                       /\ result' = [result EXCEPT ![t] =
                              Returned(ValueAfterCommit(op[t], u.triple[1]))]
                       /\ UNCHANGED reqs
    /\ UNCHANGED <<sm, storeVars, now, clientVars, op, hl>>

\* ------------------------------------------------- DimplexControl._request
\* client.py:58-81: get_access_token (auth.py:39-49) runs first, outside the
\* try; with a valid token the data request is sent in the same step.
CallRequest(t) ==
    /\ IF MissingRefreshToken(refresh_token)
       THEN Begin(t, "_request", "done", <<>>, Raised("DimplexAuthError"))
       ELSE IF is_authenticated
            THEN Begin(t, "_request", "api_req", <<ApiRequest(access_token)>>, NoResult)
            ELSE Begin(t, "_request", "rt_post",
                       <<TokenRequest("refresh_token", refresh_token)>>, NoResult)
    /\ UNCHANGED <<sm, storeVars, now, tokenVars, committed>>

\* Mutant: every 2xx status passes.
ApiStatusOk_Any2xx(status) == status >= 200 /\ status < 300

\* client.py:82
ApiStatusOk(status) == status = HTTP_OK

\* client.py:91-93: except aiohttp.ClientError catches a ClientError and its
\* subclasses and nothing else.
Wrapped(e) == IF e \in {"ClientError", "ContentTypeError"} THEN "DimplexConnectionError" ELSE e

\* client.py:80-93: how _request ends on the outcome o of its data request.
ApiResult(o) ==
    IF o.kind = "transport" THEN Raised(Wrapped("ClientError"))
    ELSE IF o.kind = "timeout" THEN Raised(Wrapped("TimeoutError"))
    ELSE IF ~ApiStatusOk(o.status) THEN Raised(Wrapped("DimplexApiError"))
    ELSE IF ContentLength(o.body) = 0 THEN Returned("{}")
    ELSE IF o.body = "html" THEN Raised(Wrapped("ContentTypeError"))
    ELSE IF o.body = "notjson" THEN Raised(Wrapped("JSONError"))
    ELSE Returned(ParsedJson(o.body))

\* client.py:83-85: DimplexApiError(resp.status, text)
ApiErrorOf(o) ==
    IF o.kind = "response" /\ ~ApiStatusOk(o.status)
    THEN [status |-> o.status, message |-> BodyText(o.body)]
    ELSE NoApiError

\* Mutant: a 401 answer makes _request refresh the tokens and send again.
ApiResponse_Retry401(t, o) ==
    /\ pc[t] = "api_req"
    /\ NoneDone
    /\ api' = [api EXCEPT ![t] = o]
    /\ IF o.kind = "response" /\ o.status = 401 /\ Len(reqs[t]) < 3
       THEN /\ reqs' = [reqs EXCEPT ![t] = Append(@, ApiRequest(access_token))]
            /\ UNCHANGED <<pc, result, apierr>>
       ELSE /\ pc' = [pc EXCEPT ![t] = "done"]
            /\ result' = [result EXCEPT ![t] = ApiResult(o)]
            /\ apierr' = [apierr EXCEPT ![t] = ApiErrorOf(o)]
            /\ UNCHANGED reqs
    /\ UNCHANGED <<sm, storeVars, autherr, now, tokenVars, committed, op, resp, hl>>

\* Mutant: a 401 answer clears the stored access token.
ApiResponse_Clear401(t, o) ==
    /\ pc[t] = "api_req"
    /\ NoneDone
    /\ api' = [api EXCEPT ![t] = o]
    /\ pc' = [pc EXCEPT ![t] = "done"]
    /\ result' = [result EXCEPT ![t] = ApiResult(o)]
    /\ apierr' = [apierr EXCEPT ![t] = ApiErrorOf(o)]
    /\ IF o.kind = "response" /\ o.status = 401
       THEN access_token' = None /\ expires_at' = 0 /\ UNCHANGED refresh_token
       ELSE UNCHANGED tokenVars
    /\ UNCHANGED <<sm, storeVars, autherr, now, committed, op, reqs, resp, hl>>

\* client.py:81-93: the answer of the data API ends the call.
ApiResponse(t, o) ==
    /\ pc[t] = "api_req"
    /\ NoneDone
    /\ api' = [api EXCEPT ![t] = o]
    /\ pc' = [pc EXCEPT ![t] = "done"]
    /\ result' = [result EXCEPT ![t] = ApiResult(o)]
    /\ apierr' = [apierr EXCEPT ![t] = ApiErrorOf(o)]
    /\ UNCHANGED <<sm, storeVars, autherr, now, tokenVars, committed, op, reqs, resp, hl>>

\* --------------------------------------------- DimplexControl.set_mode
\* client.py:134-144, 123-131, 58-81: set_mode calls get_appliance_features,
\* whose _request runs get_access_token first.
CallSetMode(t, mode) ==
    /\ IF MissingRefreshToken(refresh_token)
       THEN Begin(t, "set_mode", "done", <<>>, Raised("DimplexAuthError"))
       ELSE IF is_authenticated
            THEN Begin(t, "set_mode", "sm_fetch", <<FetchRequest(access_token)>>, NoResult)
            ELSE Begin(t, "set_mode", "rt_post",
                       <<TokenRequest("refresh_token", refresh_token)>>, NoResult)
    /\ sm' = [sm EXCEPT ![t] = [NoSetMode EXCEPT !.mode = mode]]
    /\ UNCHANGED <<storeVars, now, tokenVars, committed>>

\* Mutant: the SetTimerMode request goes out whatever the fetch answered.
SmFetchResponse_SetAnyway(t, o, doc) ==
    /\ pc[t] = "sm_fetch"
    /\ NoneDone
    /\ api' = [api EXCEPT ![t] = o]
    /\ apierr' = [apierr EXCEPT ![t] = ApiErrorOf(o)]
    /\ LET current == WithTimerMode(TimerModeSettings("h1", "ap1", 0, "[]"), sm[t].mode)
       IN /\ sm' = [sm EXCEPT ![t].data = doc, ![t].current = current]
          /\ pc' = [pc EXCEPT ![t] = "sm_set"]
          /\ reqs' = [reqs EXCEPT ![t] = Append(@, SetRequest(access_token, current))]
          /\ UNCHANGED result
    /\ UNCHANGED <<storeVars, autherr, now, tokenVars, committed, op, resp, hl>>

\* client.py:81-93, 132, 144-149, 58-81: the answer of the fetch. A failure
\* ends set_mode; settings that parse are given the requested mode and the
\* second _request starts with its own get_access_token.
SmFetchResponse(t, o, doc) ==
    /\ pc[t] = "sm_fetch"
    /\ NoneDone
    /\ api' = [api EXCEPT ![t] = o]
    /\ apierr' = [apierr EXCEPT ![t] = ApiErrorOf(o)]
    /\ LET r == ApiResult(o)
           data == IF r = Returned("{}") THEN EmptyDoc ELSE doc
           parsed == ParseSettings(data)
           current == WithTimerMode(parsed.val, sm[t].mode)
       IN IF r.kind = "raise"
          THEN /\ pc' = [pc EXCEPT ![t] = "done"]
               /\ result' = [result EXCEPT ![t] = r]
               /\ UNCHANGED <<reqs, sm>>
          ELSE IF parsed.exc # None
          THEN /\ Fail(t, parsed.exc)
               /\ sm' = [sm EXCEPT ![t].data = data]
               /\ UNCHANGED reqs
          ELSE /\ sm' = [sm EXCEPT ![t].data = data, ![t].current = current]
               /\ IF MissingRefreshToken(refresh_token)
                  THEN Fail(t, "DimplexAuthError") /\ UNCHANGED reqs
                  ELSE IF is_authenticated
                  THEN /\ pc' = [pc EXCEPT ![t] = "sm_set"]
                       /\ reqs' = [reqs EXCEPT ![t] = Append(@, SetRequest(access_token, current))]
                       /\ UNCHANGED result
                  ELSE /\ pc' = [pc EXCEPT ![t] = "rt_post"]
                       /\ reqs' = [reqs EXCEPT ![t] =
                              Append(@, TokenRequest("refresh_token", refresh_token))]
                       /\ UNCHANGED result
    /\ UNCHANGED <<storeVars, autherr, now, tokenVars, committed, op, resp, hl>>

\* client.py:81-93, 149: the answer of SetTimerMode ends set_mode, which
\* returns None when _request returned.
SmSetResponse(t, o) ==
    /\ pc[t] = "sm_set"
    /\ NoneDone
    /\ api' = [api EXCEPT ![t] = o]
    /\ apierr' = [apierr EXCEPT ![t] = ApiErrorOf(o)]
    /\ pc' = [pc EXCEPT ![t] = "done"]
    /\ result' = [result EXCEPT ![t] =
           IF ApiResult(o).kind = "raise" THEN ApiResult(o) ELSE Returned(None)]
    /\ UNCHANGED <<sm, storeVars, autherr, now, tokenVars, committed, op, reqs, resp, hl>>

\* ------------------------------------------- save_tokens / load_tokens
\* auth.py:283-292: the three fields are written as one JSON object; open()
\* may fail (ok = FALSE), and then nothing is written.
SaveTokens(t, ok) ==
    /\ IF ok
       THEN /\ Begin(t, "save_tokens", "done", <<>>, Returned(None))
            /\ file' = FileOf("json", "object", JsonOfToken(access_token),
                              JsonOfToken(refresh_token), JsonOfNumber(expires_at))
            /\ saved' = [done |-> TRUE, triple |-> Triple]
       ELSE /\ Begin(t, "save_tokens", "done", <<>>, Raised("OSError"))
            /\ UNCHANGED <<file, saved>>
    /\ UNCHANGED <<sm, loaded, logged, now, tokenVars, committed>>

\* json.load of the document of the file (auth.py:301).
Parse(f) ==
    CASE f.top = "null" -> PyNone
      [] f.top = "array" -> ValueOf("list", TRUE, None, None, 0)
      [] f.top = "empty_array" -> ValueOf("list", FALSE, None, None, 0)
      [] f.top = "string" -> ValueOf("str", TRUE, None, None, 0)
      [] f.top = "number" -> ValueOf("int", TRUE, None, None, 0)
      [] f.top = "zero" -> ValueOf("int", FALSE, None, None, 0)
      [] OTHER -> ValueOf("dict",
                          f.access_token.t # "absent" \/ f.refresh_token.t # "absent"
                              \/ f.expires_at.t # "absent",
                          PyOfToken(f.access_token), PyOfToken(f.refresh_token),
                          PyOfNumber(f.expires_at))

\* Mutant: only the JSON decoder's error is caught.
Caught_JsonOnly(e) == e = "JSONDecodeError"

\* auth.py:302: except Exception
Caught(e) == e \in {"OSError", "JSONDecodeError"}

\* auth.py:299-301: the exception open() or json.load raises, None if none.
LoadError(f) ==
    IF f.kind = "unreadable" THEN "OSError"
    ELSE IF f.kind = "garbage" THEN "JSONDecodeError"
    ELSE None

\* auth.py:294-304
LoadTokens(t) ==
    /\ IF file.kind = "absent"
       THEN /\ Begin(t, "load_tokens", "done", <<>>, Returned(None))
            /\ loaded' = PyNone
            /\ logged' = FALSE
       ELSE IF LoadError(file) = None
       THEN /\ Begin(t, "load_tokens", "done", <<>>, Returned(Parse(file).py))
            /\ loaded' = Parse(file)
            /\ logged' = FALSE
       ELSE IF Caught(LoadError(file))
       THEN /\ Begin(t, "load_tokens", "done", <<>>, Returned(None))
            /\ loaded' = PyNone
            /\ logged' = TRUE
       ELSE /\ Begin(t, "load_tokens", "done", <<>>, Raised(LoadError(file)))
            /\ UNCHANGED loaded
            /\ logged' = FALSE
    /\ UNCHANGED <<sm, file, saved, now, tokenVars, committed>>

\* auth.py:27-32: AuthManager(session, loaded); the new manager takes the place
\* of the old one when the constructor returns.
Construct(t) ==
    /\ loaded.py # "unset"
    /\ IF ~loaded.truthy
       THEN /\ Begin(t, "__init__", "done", <<>>, Returned(None))
            /\ access_token' = None
            /\ refresh_token' = None
            /\ expires_at' = 0
            /\ committed' = <<None, None, 0>>
       ELSE IF loaded.py = "dict"
       THEN /\ Begin(t, "__init__", "done", <<>>, Returned(None))
            /\ access_token' = loaded.access_token
            /\ refresh_token' = loaded.refresh_token
            /\ expires_at' = loaded.expires_at
            /\ committed' = <<loaded.access_token, loaded.refresh_token, loaded.expires_at>>
       ELSE /\ Begin(t, "__init__", "done", <<>>, Raised("AttributeError"))
            /\ UNCHANGED <<tokenVars, committed>>
    /\ UNCHANGED <<sm, storeVars, now>>

\* The caller cancels the task while it is suspended in an await.
Cancel(t) ==
    /\ pc[t] \notin {"idle", "done"}
    /\ NoneDone
    /\ pc' = [pc EXCEPT ![t] = "done"]
    /\ result' = [result EXCEPT ![t] = Raised("CancelledError")]
    /\ UNCHANGED <<sm, storeVars, autherr, now, clientVars, tokenVars, committed, op, reqs, resp, hl>>

\* The operation has ended; the task is free for the next call.
Return(t) ==
    /\ pc[t] = "done"
    /\ pc' = [pc EXCEPT ![t] = "idle"]
    /\ op' = [op EXCEPT ![t] = "none"]
    /\ reqs' = [reqs EXCEPT ![t] = <<>>]
    /\ resp' = [resp EXCEPT ![t] = NoResp]
    /\ hl' = [hl EXCEPT ![t] = NoLogin]
    /\ result' = [result EXCEPT ![t] = NoResult]
    /\ api' = [api EXCEPT ![t] = NoApi]
    /\ apierr' = [apierr EXCEPT ![t] = NoApiError]
    /\ autherr' = [autherr EXCEPT ![t] = NoAuthError]
    /\ sm' = [sm EXCEPT ![t] = NoSetMode]
    /\ UNCHANGED <<storeVars, now, tokenVars, committed>>

\* Mutant: a timer refreshes an expired token as time passes.
Tick_BackgroundRefresh ==
    /\ now < MaxTime
    /\ NoneDone
    /\ now' = now + 1
    /\ IF ~is_authenticated /\ ~MissingRefreshToken(refresh_token)
       THEN /\ access_token' = "a1"
            /\ expires_at' = now + DefaultExpiresIn
            /\ committed' = <<"a1", refresh_token, now + DefaultExpiresIn>>
            /\ UNCHANGED refresh_token
       ELSE UNCHANGED <<tokenVars, committed>>
    /\ UNCHANGED <<sm, storeVars, autherr, clientVars, pc, op, reqs, resp, hl, result>>

\* Time passes; an ended operation is handed back before the clock moves on.
Tick ==
    /\ now < MaxTime
    /\ NoneDone
    /\ now' = now + 1
    /\ UNCHANGED <<sm, storeVars, autherr, clientVars, tokenVars, committed, pc, op, reqs, resp, hl, result>>

\* The operations on the token state alone.
TokenStep(t) ==
    \/ CallIsAuthenticated(t)
    \/ CallGetAccessToken(t)
    \/ CallRefreshTokens(t)
    \/ \E c \in Codes : CallExchangeCode(t, c)
    \/ \E o \in TokenOutcomes : TokenResponse(t, o)
    \/ Cancel(t)
    \/ Return(t)

\* The steps of headless_login up to its call of exchange_code.
LoginStep(t) ==
    \/ CallHeadlessLogin(t)
    \/ \E o \in PageOutcomes, page \in Pages : HlLoginPage(t, o, page)
    \/ HlParseSettings(t)
    \/ \E o \in CredOutcomes : HlCredentialResponse(t, o)
    \/ \E o \in AutoOutcomes : HlAutoRedirectDone(t, o)
    \/ \E o \in HopOutcomes : HlHopResponse(t, o)

\* The steps of DimplexControl._request around its token.
ClientStep(t) ==
    \/ CallRequest(t)
    \/ \E o \in ApiOutcomes : ApiResponse(t, o)

\* The steps of DimplexControl.set_mode.
SetModeStep(t) ==
    \/ \E mode \in Modes : CallSetMode(t, mode)
    \/ \E o \in ApiOutcomes, doc \in SettingsDocs : SmFetchResponse(t, o, doc)
    \/ \E o \in ApiOutcomes : SmSetResponse(t, o)

\* One caller at a time (spec section 5): SeqTask issues every operation.
Next ==
    \/ Tick
    \/ TokenStep(SeqTask)
    \/ LoginStep(SeqTask)
    \/ ClientStep(SeqTask)
    \/ SetModeStep(SeqTask)
Spec == Init /\ [][Next]_vars

\* Overlapping token operations of several tasks on one manager.
NextConc == Tick \/ \E t \in Tasks : TokenStep(t)
SpecConc == Init /\ [][NextConc]_vars

\* Token persistence: a manager in any token state, a token file in any
\* condition; the caller saves, loads and constructs a manager from what it
\* loaded.
InitStore ==
    /\ now = 0
    /\ access_token \in InitAccess
    /\ refresh_token \in InitRefresh
    /\ expires_at \in StoreExpires
    /\ committed = <<access_token, refresh_token, expires_at>>
    /\ pc = [t \in Tasks |-> "idle"]
    /\ op = [t \in Tasks |-> "none"]
    /\ reqs = [t \in Tasks |-> <<>>]
    /\ resp = [t \in Tasks |-> NoResp]
    /\ hl = [t \in Tasks |-> NoLogin]
    /\ result = [t \in Tasks |-> NoResult]
    /\ api = [t \in Tasks |-> NoApi]
    /\ apierr = [t \in Tasks |-> NoApiError]
    /\ autherr = [t \in Tasks |-> NoAuthError]
    /\ sm = [t \in Tasks |-> NoSetMode]
    /\ file \in InitFiles
    /\ saved = NoSave
    /\ loaded = NoLoaded
    /\ logged = FALSE

StoreStep(t) ==
    \/ \E ok \in BOOLEAN : SaveTokens(t, ok)
    \/ LoadTokens(t)
    \/ Construct(t)
    \/ CallIsAuthenticated(t)
    \/ Return(t)

NextStore == StoreStep(SeqTask)
SpecStore == InitStore /\ [][NextStore]_vars

\* ================================================================ claims
\* The caller the claims observe.
T == SeqTask

AtDone(o) == pc[T] = "done" /\ op[T] = o
Is2xx(status) == status >= 200 /\ status < 300
\* A step in which task T receives the answer of the token endpoint.
TokenAnswered == pc[T] \in {"rt_post", "ex_post"} /\ pc'[T] = "done" /\ resp'[T].kind # "none"
\* The body lets _update_tokens run to its end.
WholeBody(b) == b.json = "dict" /\ b.expires_in.kind # "bad"
\* The lifetime a body states, 3600 when it states none.
Lifetime(b) == IF b.expires_in.kind = "absent" THEN 3600 ELSE b.expires_in.val

\* C1: the triple (access_token, refresh_token, expires_at) is always the
\* constructor's triple or the triple of one whole token endpoint response,
\* never fields of two sources.  Stated as claimed; the code breaks it when
\* expires_in is not a number.
C1_TripleFromOneSource == Triple = committed

\* C2 as claimed: in refresh_tokens and exchange_code a non-2xx answer raises
\* DimplexAuthError and leaves the triple as it was, and every 2xx answer is
\* treated as success (not rejected for its status).
C2_Every2xxIsSuccess ==
    [][(TokenAnswered /\ op[T] \in {"refresh_tokens", "exchange_code"} /\ resp'[T].kind = "response")
        => IF Is2xx(resp'[T].status)
           THEN result'[T] # Raised("DimplexAuthError")
           ELSE result'[T] = Raised("DimplexAuthError") /\ UNCHANGED tokenVars]_vars

\* C2 amended: in refresh_tokens and exchange_code every answer whose status
\* is not exactly 200 (non-2xx, and 2xx other than 200) raises
\* DimplexAuthError, and no step of the failing call changes the triple; only
\* a 200 answer is treated as success.
C2_Non200Rejected ==
    [][(op'[T] \in {"refresh_tokens", "exchange_code"})
        => /\ (pc[T] = "idle" => UNCHANGED tokenVars)
           /\ (TokenAnswered /\ resp'[T].kind \in {"response", "badjson"}
                 => IF resp'[T].status = 200
                    THEN result'[T] # Raised("DimplexAuthError")
                    ELSE result'[T] = Raised("DimplexAuthError") /\ UNCHANGED tokenVars)]_vars

C2_Witness ==
    /\ AtDone("refresh_tokens")
    /\ resp[T].kind = "response" /\ resp[T].status = 201
    /\ result[T] = Raised("DimplexAuthError")
    /\ access_token = "a0"

\* C3: after a successful refresh_tokens or exchange_code whose response
\* {access_token: A, refresh_token: B, expires_in: E} is processed at time
\* now, the state is A, B and now + E - 60, with E = 3600 when absent.
C3_SuccessfulCommit ==
    \A t \in Tasks :
        (pc[t] = "done" /\ op[t] \notin {"_request", "set_mode"} /\ resp[t].kind = "response" /\ result[t].kind = "return")
            => /\ access_token = resp[t].body.access_token
               /\ refresh_token = resp[t].body.refresh_token
               /\ expires_at = now + Lifetime(resp[t].body) - 60

C3_Witness ==
    /\ AtDone("exchange_code")
    /\ result[T].kind = "return"
    /\ resp[T].body.expires_in.kind = "absent"
    /\ Triple = <<"a1", "r1", now + 3540>>
    /\ now > 0

\* C4: is_authenticated is true exactly when an access token is present and
\* now < expires_at, whatever the refresh token; evaluating it sends no
\* request and changes no state.
C4_IsAuthenticated ==
    [][(op'[T] = "is_authenticated")
        => /\ result'[T] = Returned(IF access_token # None /\ now < expires_at THEN "True" ELSE "False")
           /\ reqs'[T] = <<>>
           /\ UNCHANGED <<tokenVars, now>>]_vars

C4_Witness ==
    /\ AtDone("is_authenticated")
    /\ result[T] = Returned("False")
    /\ access_token # None /\ expires_at = now
    /\ ~Falsy(refresh_token)

\* C5 as claimed: whenever is_authenticated holds, get_access_token returns
\* the stored access token, sends no request and changes nothing, whether or
\* not a refresh token is held.
C5_ValidTokenReturned ==
    [][(pc[T] = "idle" /\ op'[T] = "get_access_token" /\ is_authenticated)
        => /\ result'[T] = Returned(access_token)
           /\ reqs'[T] = <<>>
           /\ UNCHANGED tokenVars]_vars

\* C6: get_access_token on an expired or absent access token with a refresh
\* token held sends exactly one refresh request and, when that request
\* succeeds, returns the access_token of its response.
C6_OneRefresh ==
    [][(op'[T] = "get_access_token")
        => /\ (pc[T] = "idle" /\ ~is_authenticated /\ ~Falsy(refresh_token))
                => /\ pc'[T] = "rt_post"
                   /\ reqs'[T] = <<TokenRequest("refresh_token", refresh_token)>>
           /\ (pc[T] = "rt_post" /\ pc'[T] # "rt_post")
                => /\ reqs'[T] = reqs[T] /\ Len(reqs[T]) = 1
                   /\ pc'[T] = "done"
                   /\ (TokenAnswered /\ resp'[T].kind = "response" /\ resp'[T].status = 200
                         /\ WholeBody(resp'[T].body))
                        => result'[T] = Returned(resp'[T].body.access_token)]_vars

C6_Witness ==
    /\ AtDone("get_access_token")
    /\ reqs[T] = <<TokenRequest("refresh_token", "r0")>>
    /\ result[T] = Returned("a1")
    /\ resp[T].body.access_token = "a1"

\* C7: get_access_token without a refresh token raises DimplexAuthError,
\* sends no request and changes nothing; when the refresh it triggers fails,
\* the call raises (DimplexAuthError when the endpoint rejected the request)
\* and never returns the stale access token.
C7_NoRefreshTokenOrFailedRefresh ==
    [][(op'[T] = "get_access_token")
        => /\ (pc[T] = "idle" /\ Falsy(refresh_token))
                => /\ pc'[T] = "done"
                   /\ result'[T] = Raised("DimplexAuthError")
                   /\ reqs'[T] = <<>>
                   /\ UNCHANGED tokenVars
           /\ (pc[T] = "rt_post" /\ pc'[T] = "done"
               /\ ~(resp'[T].kind = "response" /\ resp'[T].status = 200 /\ WholeBody(resp'[T].body)))
                => /\ result'[T].kind = "raise"
                   /\ (resp'[T].kind = "response" /\ resp'[T].status # 200)
                        => result'[T] = Raised("DimplexAuthError") /\ UNCHANGED tokenVars]_vars

C7_Witness ==
    /\ AtDone("get_access_token")
    /\ reqs[T] # <<>>
    /\ resp[T].kind = "response" /\ resp[T].status = 400
    /\ result[T] = Raised("DimplexAuthError")
    /\ access_token = "a0"

\* C8 as claimed: refresh_tokens without a stored refresh token fails with
\* DimplexAuthError before any request: nothing is posted and the triple is
\* unchanged.
C8_RefreshNeedsToken ==
    [][(pc[T] = "idle" /\ op'[T] = "refresh_tokens" /\ Falsy(refresh_token))
        => /\ result'[T] = Raised("DimplexAuthError")
           /\ reqs'[T] = <<>>
           /\ UNCHANGED tokenVars]_vars

\* C9 as claimed: a headless_login that fails at any stage leaves the triple
\* as it was: the triple changes only in the step that ends the call with
\* success.
C9_FailedLoginKeepsTokens ==
    [][(op'[T] = "headless_login" /\ tokenVars' # tokenVars) => result'[T].kind = "return"]_vars

\* C10: headless_login moves through FetchingLoginPage, ParsingSettings,
\* SubmittingCredentials, FollowingRedirects, CodeExchanged in this order,
\* one stage at a time, and from each of them otherwise only to Failed; the
\* credential POST needs csrf and transId, redirect following needs a
\* credential answer of status "200", the token request needs a code.
StageOrder ==
    {<<"NotLoggingIn", "FetchingLoginPage">>,
     <<"FetchingLoginPage", "ParsingSettings">>,
     <<"ParsingSettings", "SubmittingCredentials">>,
     <<"SubmittingCredentials", "FollowingRedirects">>,
     <<"FollowingRedirects", "CodeExchanged">>,
     <<"CodeExchanged", "LoggedIn">>,
     <<"Failed", "NotLoggingIn">>,
     <<"LoggedIn", "NotLoggingIn">>}
    \cup {<<st, "Failed">> : st \in {"FetchingLoginPage", "ParsingSettings", "SubmittingCredentials",
                                     "FollowingRedirects", "CodeExchanged"}}

StageOf(t) == Stage(pc[t], op[t], result[t])
Sent(t, grant) == \E i \in 1..Len(reqs[t]) : reqs[t][i].grant = grant
ManualGets(t) == {i \in 1..Len(reqs[t]) : reqs[t][i].val = "manual"}

StageGuards(t) ==
    op[t] = "headless_login" =>
        /\ Sent(t, "password") => ~Falsy(hl[t].csrf) /\ ~Falsy(hl[t].transId)
        /\ Sent(t, "password") <=> StageOf(t) \notin {"FetchingLoginPage", "ParsingSettings"}
                                   /\ ~(StageOf(t) = "Failed" /\ Falsy(hl[t].csrf))
        /\ (\E i \in 1..Len(reqs[t]) : reqs[t][i].val \in {"auto", "manual"}) => hl[t].cred = "200"
        /\ StageOf(t) = "FollowingRedirects" => hl[t].cred = "200"
        /\ Sent(t, "authorization_code")
             => /\ ~Falsy(hl[t].code)
                /\ reqs[t][Len(reqs[t])] = TokenRequest("authorization_code", hl[t].code)
                /\ ManualGets(t) # {}
        /\ StageOf(t) \in {"CodeExchanged", "LoggedIn"} => Sent(t, "authorization_code")

C10_StageOrder ==
    [][/\ (StageOf(T)' # StageOf(T)) => <<StageOf(T), StageOf(T)'>> \in StageOrder
       /\ StageGuards(T)']_vars

C10_Witness ==
    /\ StageOf(T) = "CodeExchanged"
    /\ hl[T].hops = 3
    /\ hl[T].code = "XYZ"

\* A step in which task T receives the answer to a GET of the manual loop.
HopAnswered == pc[T] = "hl_hop" /\ hl'[T].last # hl[T].last
HopAnsweredWith == hl'[T].last
\* The Location of a redirect answer (301, 302, 303) that names one.
RedirectTo(o) == IF o.kind = "response" /\ o.status \in {301, 302, 303} THEN o.location ELSE None
\* A Location whose query string holds code=C with C not empty.
CarriesCode(l) == l \in {"code", "app_code"}
CodeOf(l) == "XYZ"
CountReqs(t, P(_)) == Cardinality({i \in 1..Len(reqs[t]) : P(reqs[t][i])})
IsManualGet(r) == r.grant = "GET" /\ r.val = "manual"
IsAutoGet(r) == r.grant = "GET" /\ r.val = "auto"
IsTokenPost(r) == r.ep = "token"
IsPasswordPost(r) == r.grant = "password"

\* C11: in the redirect loop, a hop (one of the first 10) whose Location
\* carries code=C stops the loop and exchange_code is called with exactly C; a
\* chain of answered hops that yields no code ends in DimplexAuthError with no
\* token request; the loop sends at most 10 requests.
C11_RedirectLoop ==
    [][/\ CountReqs(T, IsManualGet)' <= 10
       /\ (op[T] = "headless_login" /\ HopAnswered /\ HopAnsweredWith.kind = "response")
            => /\ hl[T].hops \in 1..10 /\ CountReqs(T, IsManualGet) = hl[T].hops
               /\ IF CarriesCode(RedirectTo(HopAnsweredWith))
                  THEN /\ pc'[T] = "ex_post"
                       /\ reqs'[T] = Append(reqs[T],
                              TokenRequest("authorization_code", CodeOf(RedirectTo(HopAnsweredWith))))
                  ELSE /\ CountReqs(T, IsTokenPost)' = 0
                       /\ pc'[T] \in {"hl_hop", "done"}
                       /\ pc'[T] = "done" => result'[T] = Raised("DimplexAuthError")
                       /\ pc'[T] = "hl_hop" => hl[T].hops < 10]_vars

C11_Witness ==
    /\ AtDone("headless_login")
    /\ hl[T].hops = 10
    /\ hl[T].last.location = "next"
    /\ result[T] = Raised("DimplexAuthError")
    /\ CountReqs(T, IsManualGet) = 10

C13_OnlyManualRedirects == CountReqs(T, IsAutoGet) = 0

\* C14: a login page without SETTINGS, with SETTINGS that do not parse, or
\* with csrf or transId missing or empty ends headless_login in
\* DimplexAuthError with no request carrying the credentials; the password
\* is in exactly one request of a run that reaches SubmittingCredentials (the
\* SelfAsserted POST) and in none otherwise.
C14_PasswordOnlyAfterSettings ==
    [][/\ (op[T] = "headless_login" /\ pc[T] = "hl_parse" /\ pc'[T] # "hl_parse"
           /\ (hl[T].page.settings # "ok" \/ Falsy(hl[T].page.csrf) \/ Falsy(hl[T].page.transId)))
            => /\ pc'[T] = "done"
               /\ result'[T] \in {Raised("DimplexAuthError"), Raised("CancelledError")}
               /\ reqs'[T] = reqs[T]
       /\ (op[T] = "headless_login" /\ pc'[T] = "hl_submit" /\ pc[T] # "hl_submit")
            => /\ pc[T] = "hl_parse"
               /\ reqs'[T] = Append(reqs[T], CredentialPost(hl[T].page.csrf))
       /\ CountReqs(T, IsPasswordPost)' =
            (IF op'[T] = "headless_login"
                /\ (pc'[T] \in {"hl_submit", "hl_auto", "hl_hop", "ex_post"}
                    \/ (pc'[T] = "done" /\ ~Falsy(hl'[T].csrf)))
             THEN 1 ELSE 0)]_vars

C14_Witness ==
    /\ AtDone("headless_login")
    /\ hl[T].page.settings = "ok" /\ hl[T].page.csrf = "c" /\ hl[T].page.transId = ""
    /\ result[T] = Raised("DimplexAuthError")
    /\ CountReqs(T, IsPasswordPost) = 0

\* C15 as claimed: an answer to the credential POST that is not JSON, or is
\* JSON whose status field is not the string "200", ends headless_login in
\* DimplexAuthError with no redirect GET and no token request.
C15_RejectedCredentials ==
    (AtDone("headless_login") /\ hl[T].cred \notin {"pending", "200"})
        => /\ result[T] = Raised("DimplexAuthError")
           /\ CountReqs(T, IsManualGet) + CountReqs(T, IsAutoGet) + CountReqs(T, IsTokenPost) = 0

IsApiRequest(r) == r.ep = "api"
\* A step in which task T receives the answer of the data API.
ApiAnswered == pc[T] = "api_req" /\ pc'[T] = "done" /\ api'[T].kind # "none"
\* The body of a data API answer parses as JSON.
Parses(b) == b = "json"

\* C16: _request obtains its token through get_access_token first: a data
\* request is sent only with the token that call returned (the stored token
\* when it is valid, the access_token committed by the refresh otherwise) as
\* bearer, after the token request if there was one; when get_access_token
\* fails, no data request is sent.
C16_TokenBeforeRequest ==
    [][(op'[T] = "_request")
        => /\ pc[T] = "idle"
                => IF Falsy(refresh_token)
                   THEN pc'[T] = "done" /\ result'[T].kind = "raise" /\ reqs'[T] = <<>>
                   ELSE IF access_token # None /\ now < expires_at
                   THEN /\ reqs'[T] = <<[ep |-> "api", grant |-> "Bearer", val |-> access_token]>>
                        /\ UNCHANGED tokenVars
                   ELSE /\ CountReqs(T, IsApiRequest)' = 0
                        /\ pc'[T] = "rt_post"
           /\ (pc[T] = "rt_post" /\ pc'[T] # "rt_post")
                => IF pc'[T] = "done"
                   THEN result'[T].kind = "raise" /\ CountReqs(T, IsApiRequest)' = 0
                   ELSE /\ resp'[T].kind = "response" /\ resp'[T].status = 200
                        /\ Triple' = committed'
                        /\ access_token' = resp'[T].body.access_token
                        /\ reqs'[T] = Append(reqs[T],
                               [ep |-> "api", grant |-> "Bearer", val |-> access_token'])
           /\ pc[T] = "api_req" => reqs'[T] = reqs[T]]_vars

C16_Witness ==
    /\ AtDone("_request")
    /\ reqs[T] = <<TokenRequest("refresh_token", "r0"),
                   [ep |-> "api", grant |-> "Bearer", val |-> "a1"]>>
    /\ access_token = "a1"
    /\ result[T].kind = "return"

\* C17 as claimed: a non-2xx answer of the data API raises DimplexApiError
\* with the status and the body of the answer, and every 2xx answer is treated
\* as success (not rejected for its status; its parsed body is returned).
C17_Every2xxIsSuccess ==
    [][(op[T] = "_request" /\ ApiAnswered /\ api'[T].kind = "response")
        => IF Is2xx(api'[T].status)
           THEN /\ result'[T] # Raised("DimplexApiError")
                /\ Parses(api'[T].body) => result'[T].kind = "return"
           ELSE /\ result'[T] = Raised("DimplexApiError")
                /\ apierr'[T] = [status |-> api'[T].status, message |-> BodyText(api'[T].body)]]_vars

\* C17 amended: every answer of the data API whose status is not exactly 200
\* (non-2xx, and 2xx other than 200) raises DimplexApiError with the status
\* and the body of the answer; a 200 answer is treated as success: {} when its
\* content length is 0, the parsed body when it parses, and never
\* DimplexApiError.
C17_Non200IsApiError ==
    [][(op[T] = "_request" /\ ApiAnswered /\ api'[T].kind = "response")
        => IF api'[T].status = 200
           THEN /\ result'[T] # Raised("DimplexApiError")
                /\ apierr'[T] = NoApiError
                /\ api'[T].body = "empty" => result'[T] = Returned("{}")
                /\ Parses(api'[T].body) => result'[T] = Returned("parsed")
           ELSE /\ result'[T] = Raised("DimplexApiError")
                /\ apierr'[T] = [status |-> api'[T].status, message |-> BodyText(api'[T].body)]]_vars

C17_Witness ==
    /\ AtDone("_request")
    /\ api[T].kind = "response" /\ api[T].status = 201 /\ api[T].body = "json"
    /\ result[T] = Raised("DimplexApiError")
    /\ apierr[T] = [status |-> 201, message |-> "json"]

\* C18 as claimed: a failure of the transport anywhere inside _request, the
\* refresh it triggers included, reaches the caller as
\* DimplexConnectionError.
C18_TransportIsConnectionError ==
    (AtDone("_request") /\ (resp[T].kind = "transport" \/ api[T].kind \in {"transport", "timeout"}))
        => result[T] = Raised("DimplexConnectionError")

\* C19: one _request sends at most one refresh request and at most one data
\* request; an answered data request, a 401 included, ends the call with no
\* further request.
C19_NoRetry ==
    [][(op'[T] = "_request")
        => /\ CountReqs(T, IsTokenPost)' <= 1
           /\ CountReqs(T, IsApiRequest)' <= 1
           /\ pc[T] = "api_req"
                => /\ reqs'[T] = reqs[T]
                   /\ pc'[T] \in {"api_req", "done"}
                   /\ UNCHANGED tokenVars
           /\ ApiAnswered => pc'[T] = "done"]_vars

C19_Witness ==
    /\ AtDone("_request")
    /\ api[T].kind = "response" /\ api[T].status = 401
    /\ result[T] = Raised("DimplexApiError")
    /\ CountReqs(T, IsTokenPost) = 1 /\ CountReqs(T, IsApiRequest) = 1

\* C20 as claimed: every failing outcome of refresh_tokens, exchange_code
\* and headless_login is a DimplexAuthError handed to the caller, a failure
\* of the transport and a 200 answer that is not valid JSON included.
C20_EveryFailureIsAuthError ==
    (pc[T] = "done" /\ op[T] \in {"refresh_tokens", "exchange_code", "headless_login"}
        /\ result[T].kind = "raise" /\ result[T] # Raised("CancelledError"))
        => result[T] = Raised("DimplexAuthError")

\* A step in which task T calls o and it ends at once.
Calls(o) == pc[T] = "idle" /\ pc'[T] = "done" /\ op'[T] = o
\* The token file holds no readable JSON document.
Unloadable(f) == f.kind \in {"unreadable", "garbage"}

\* C21: load_tokens never raises; for a path that does not exist it returns
\* None, and for a file that cannot be read or holds no valid JSON it returns
\* None after logging the failure.
C21_LoadNeverRaises ==
    [][Calls("load_tokens")
        => /\ result'[T].kind = "return"
           /\ file.kind = "absent" => result'[T] = Returned(None) /\ loaded'.py = "None"
           /\ Unloadable(file) => result'[T] = Returned(None) /\ loaded'.py = "None" /\ logged'
           /\ UNCHANGED <<file, tokenVars>>]_vars

C21_Witness ==
    /\ AtDone("load_tokens")
    /\ file.kind = "unreadable"
    /\ result[T] = Returned(None)
    /\ logged

\* C22 as claimed: a file whose content is valid JSON but not the expected
\* object (an array, a string, a number) is loaded without an exception, and
\* constructing an AuthManager from the loaded value raises nothing and
\* yields the empty, unauthenticated token state.
C22_ShapeMismatchIsNoTokens ==
    [][(Calls("__init__") /\ loaded.py \in {"list", "str", "int"})
        => /\ result'[T].kind = "return"
           /\ Triple' = <<None, None, 0>>]_vars

\* C23: save_tokens leaves the token state as it is; load_tokens of the file
\* it wrote returns the saved access_token, refresh_token and expires_at; an
\* AuthManager constructed from that value has the saved token state.
C23_RoundTrip ==
    [][/\ Calls("save_tokens")
            => /\ UNCHANGED tokenVars
               /\ result'[T].kind = "return" => saved' = [done |-> TRUE, triple |-> Triple]
       /\ (Calls("load_tokens") /\ saved.done)
            => /\ loaded'.py = "dict"
               /\ <<loaded'.access_token, loaded'.refresh_token, loaded'.expires_at>> = saved.triple
       /\ (Calls("__init__") /\ saved.done /\ loaded.py = "dict"
            /\ <<loaded.access_token, loaded.refresh_token, loaded.expires_at>> = saved.triple)
            => /\ result'[T].kind = "return"
               /\ Triple' = saved.triple]_vars

C23_Witness ==
    /\ AtDone("__init__")
    /\ saved = [done |-> TRUE, triple |-> <<None, "", 0 - 30>>]
    /\ Triple = <<None, "", 0 - 30>>
    /\ loaded.py = "dict" /\ loaded.refresh_token = ""
    /\ committed = Triple

\* C24 as claimed: right after a refresh_tokens that the token endpoint
\* answered with 200 and that returned, is_authenticated is true.
C24_AuthenticatedAfterRefresh ==
    [][(op[T] = "refresh_tokens" /\ TokenAnswered /\ result'[T].kind = "return")
        => (access_token' # None /\ now' < expires_at')]_vars

\* C24 amended: right after a refresh_tokens that returned, is_authenticated
\* is true exactly when the response carried an access_token and a lifetime
\* above 60 seconds (3600 when it states none); it is false when the response
\* has no access_token or its expires_in is 60 or less.
C24_AuthenticatedIffUsableResponse ==
    [][(op[T] = "refresh_tokens" /\ TokenAnswered /\ result'[T].kind = "return")
        => ((access_token' # None /\ now' < expires_at')
              <=> (resp'[T].body.access_token # None /\ Lifetime(resp'[T].body) > 60))]_vars

C24_Witness ==
    /\ AtDone("refresh_tokens")
    /\ result[T].kind = "return"
    /\ resp[T].body.access_token = "a1"
    /\ resp[T].body.expires_in = [kind |-> "int", val |-> 60]
    /\ access_token = "a1" /\ expires_at = now
    /\ now > 0

IsRefreshPost(r) == r.ep = "token" /\ r.grant = "refresh_token"
\* A step in which task T sends a request.
Sends(P(_)) ==
    /\ reqs'[T] # reqs[T]
    /\ Len(reqs'[T]) > 0
    /\ P(reqs'[T][Len(reqs'[T])])

\* C25: the passage of time alone changes no token state and sends no
\* request; a refresh request is sent only in the step in which the caller
\* calls get_access_token (directly, or as the first thing a _request does:
\* the one of a data call, or either of the two _request calls of set_mode)
\* or refresh_tokens.
C25_NoBackgroundRefresh ==
    [][/\ now' # now => UNCHANGED <<tokenVars, reqs, pc, op>>
       /\ Sends(IsRefreshPost)
            => /\ pc'[T] = "rt_post"
               /\ \/ /\ pc[T] = "idle"
                     /\ op'[T] \in {"get_access_token", "refresh_tokens", "_request", "set_mode"}
                     /\ reqs'[T] = <<[ep |-> "token", grant |-> "refresh_token", val |-> refresh_token]>>
                  \/ /\ pc[T] = "sm_fetch" /\ op[T] = "set_mode"
                     /\ api'[T].kind = "response" /\ api'[T].status = 200
                     /\ reqs'[T] = Append(reqs[T],
                            [ep |-> "token", grant |-> "refresh_token", val |-> refresh_token])
               /\ now' = now]_vars

C25_Witness ==
    /\ pc[T] = "rt_post" /\ op[T] = "get_access_token"
    /\ now = 2 /\ expires_at = 1 /\ access_token = "a0"
    /\ reqs[T] = <<TokenRequest("refresh_token", "r0")>>

\* C26 as claimed: the DimplexAuthError exchange_code raises on a non-2xx
\* answer carries the HTTP status and the body, as the error of
\* refresh_tokens does.
C26_ExchangeErrorCarriesStatus ==
    (pc[T] = "done" /\ op[T] \in {"exchange_code", "refresh_tokens"}
        /\ resp[T].kind = "response" /\ ~Is2xx(resp[T].status))
        => /\ result[T] = Raised("DimplexAuthError")
           /\ autherr[T].status = resp[T].status
           /\ autherr[T].text # None

\* C27 as claimed: whenever get_access_token returns, the value it returns
\* is a present access token, the stored one, with now < expires_at, for
\* every token endpoint response.
C27_ReturnedTokenIsUsable ==
    [][(op'[T] = "get_access_token" /\ pc'[T] = "done" /\ pc[T] # "done"
        /\ result'[T].kind = "return")
        => /\ result'[T].val # None
           /\ result'[T].val = access_token'
           /\ now' < expires_at']_vars

\* C28 as claimed: a successful refresh or exchange whose response has no
\* refresh_token leaves no refresh token; while none is held every
\* get_access_token raises DimplexAuthError; and a refresh token is held
\* again only once an exchange_code or headless_login has succeeded.
C28_NoRefreshTokenUntilLogin ==
    [][/\ (TokenAnswered /\ result'[T].kind = "return" /\ resp'[T].body.refresh_token = None)
            => refresh_token' = None
       /\ (Calls("get_access_token") /\ refresh_token = None)
            => result'[T] = Raised("DimplexAuthError") /\ reqs'[T] = <<>>
       /\ (pc[T] = "idle" /\ op'[T] = "get_access_token" /\ refresh_token = None)
            => pc'[T] = "done"
       /\ (refresh_token = None /\ refresh_token' # None)
            => /\ op[T] \in {"exchange_code", "headless_login"}
               /\ pc'[T] = "done" /\ result'[T].kind = "return"]_vars

\* C29 as claimed: a task that calls get_access_token on an expired state
\* while the refresh of another task is in flight sends a refresh request of
\* its own, and every 200 answer with a token object is committed whole,
\* the state being the answer processed last.
C29_NoCoalescing ==
    [][\A t \in Tasks :
        /\ (pc[t] = "idle" /\ op'[t] = "get_access_token" /\ ~Falsy(refresh_token)
             /\ ~(access_token # None /\ now < expires_at))
              => /\ pc'[t] = "rt_post"
                 /\ reqs'[t] = <<[ep |-> "token", grant |-> "refresh_token", val |-> refresh_token]>>
        /\ (op[t] = "get_access_token" /\ pc[t] = "rt_post" /\ pc'[t] = "done"
             /\ resp'[t].kind = "response" /\ resp'[t].status = 200
             /\ resp'[t].body.json = "dict")
              => /\ Triple' = committed'
                 /\ access_token' = resp'[t].body.access_token
                 /\ refresh_token' = resp'[t].body.refresh_token]_vars

\* C30 as claimed: a get_access_token whose refresh fails leaves the refresh
\* token held and unchanged, so that a later call sends it again; a refresh
\* the token endpoint answers with 200 and a token object returns the new
\* access token.
C30_FailedRefreshKeepsRefreshToken ==
    [][(op[T] = "get_access_token" /\ pc[T] = "rt_post" /\ pc'[T] = "done")
        => /\ result'[T].kind = "raise"
                => refresh_token' = refresh_token /\ ~Falsy(refresh_token')
           /\ (resp'[T].kind = "response" /\ resp'[T].status = 200 /\ resp'[T].body.json = "dict")
                => result'[T] = Returned(resp'[T].body.access_token)]_vars

\* C31: while the data request of a _request is awaited (a data call's, or
\* one of the two of set_mode), and when it fails with DimplexApiError or
\* DimplexConnectionError, the token state stays what it was when the
\* request was sent (the stored access token is the bearer that request
\* carried); a 401 answer neither clears nor expires it.
C31_FailedRequestKeepsTokens ==
    [][pc[T] \in {"api_req", "sm_fetch", "sm_set"}
        => /\ UNCHANGED tokenVars
           /\ (pc'[T] = "done" /\ api'[T].kind # "none"
                  /\ result'[T] \in {Raised("DimplexApiError"), Raised("DimplexConnectionError")})
                => /\ access_token' = reqs[T][Len(reqs[T])].val
                   /\ reqs'[T] = reqs[T]]_vars

C31_Witness ==
    /\ AtDone("_request")
    /\ api[T].kind = "response" /\ api[T].status = 401
    /\ result[T] = Raised("DimplexApiError")
    /\ Len(reqs[T]) = 1
    /\ access_token = "a0" /\ now < expires_at

\* C32: in the manual redirect loop, an answer that is not a 301, 302 or 303
\* (a 200 page, a 307), or such a redirect without a Location header, ends
\* the loop at once: no further request, no exchange_code, and the call
\* fails with DimplexAuthError.
C32_NonRedirectEndsLoop ==
    [][(op[T] = "headless_login" /\ HopAnswered /\ HopAnsweredWith.kind = "response"
        /\ (HopAnsweredWith.status \notin {301, 302, 303} \/ HopAnsweredWith.location = None))
        => /\ pc'[T] = "done"
           /\ result'[T] = Raised("DimplexAuthError")
           /\ reqs'[T] = reqs[T]
           /\ CountReqs(T, IsTokenPost)' = 0
           /\ UNCHANGED tokenVars]_vars

C32_Witness ==
    /\ AtDone("headless_login")
    /\ hl[T].last.kind = "response" /\ hl[T].last.status = 307 /\ hl[T].last.location = "code"
    /\ hl[T].hops = 2
    /\ result[T] = Raised("DimplexAuthError")
    /\ CountReqs(T, IsTokenPost) = 0

IsFetch(r) == r.ep = "GetTimerModeDetailsForAppliance"
IsSetTimerMode(r) == r.ep = "SetTimerMode"
FetchAnswered == op[T] = "set_mode" /\ pc[T] = "sm_fetch" /\ api'[T].kind # "none"

C33_WitnessFetchFailed ==
    /\ AtDone("set_mode")
    /\ api[T].kind = "response" /\ api[T].status = 500
    /\ result[T] = Raised("DimplexApiError")
    /\ Len(reqs[T]) = 1 /\ IsFetch(reqs[T][1])

====
